---------------------------- MODULE Spec2Model ----------------------------
(***************************************************************************)
(* The numeric pipeline of the B2Inv example plotters:                     *)
(*   efficiency_plotter.plot, significance_plotter.plot and                *)
(*   significance_bf_plotter.plot.                                         *)
(* Real numbers are exact rationals <<n, d>> (d > 0, lowest terms); a      *)
(* square root is kept symbolically, so that every comparison the model    *)
(* makes is exact.  numpy's float results that are not real numbers (nan,  *)
(* inf) are separate values, produced where numpy produces them.           *)
(***************************************************************************)
EXTENDS Integers, Sequences, FiniteSets

(***************************************************************************)
(* Bounds of the model.                                                    *)
(***************************************************************************)
MaxLen == 2        \* longest sweep (cutvalues, signal_bf)
MaxScore == 2      \* discriminant scores and thresholds are 0..MaxScore
MaxEvents == 2     \* processed events in the summary table, all samples
MaxPerBin == 1     \* events of one sample with the same outcome
MaxBF == 2         \* branching fractions are 0..MaxBF (in units of BF)

(***************************************************************************)
(* Exact rational arithmetic.                                              *)
(***************************************************************************)
Abs(x) == IF x < 0 THEN -x ELSE x

RECURSIVE GCD(_, _)
GCD(a, b) == IF b = 0 THEN a ELSE GCD(b, a % b)

Rat(n, d) == LET g == GCD(Abs(n), d) IN <<n \div g, d \div g>>

RInt(n) == <<n, 1>>

RZero == <<0, 1>>

RNeg(x) == <<-x[1], x[2]>>

RAdd(x, y) ==
    LET L == (x[2] \div GCD(x[2], y[2])) * y[2]
    IN  Rat(x[1] * (L \div x[2]) + y[1] * (L \div y[2]), L)

RSub(x, y) == RAdd(x, RNeg(y))

RMul(x, y) ==
    LET g1 == GCD(Abs(x[1]), y[2])
        g2 == GCD(Abs(y[1]), x[2])
    IN  <<(x[1] \div g1) * (y[1] \div g2), (x[2] \div g2) * (y[2] \div g1)>>

RSq(x) == RMul(x, x)

RSign(x) == IF x[1] > 0 THEN 1 ELSE IF x[1] < 0 THEN -1 ELSE 0

RLeq(x, y) == RSign(RSub(x, y)) <= 0

(***************************************************************************)
(* a + s*sqrt(V), with a and V rationals, V >= 0 and s an integer.         *)
(***************************************************************************)
Surd(a, s, V) == [a |-> a, s |-> IF V = RZero THEN 0 ELSE s, V |-> IF s = 0 THEN RZero ELSE V]

\* sign of p + q*sqrt(V), p and q rationals
SurdSign(p, q, V) ==
    LET sp == RSign(p)
        sq == IF V = RZero THEN 0 ELSE RSign(q)
    IN  IF sq = 0 THEN sp
        ELSE IF sp = 0 THEN sq
        ELSE IF sp = sq THEN sp
        ELSE sp * RSign(RSub(RSq(p), RMul(RSq(q), V)))

SignOf(r) == SurdSign(r.a, RInt(r.s), r.V)

(***************************************************************************)
(* numpy float64 results.  A number is (n / sqrt(r))^e with n a rational   *)
(* >= 0, r a surd > 0 and e in {1, -1}; zero is n = 0 with e = 1.  nan and *)
(* inf are what numpy returns (with a RuntimeWarning) for an invalid       *)
(* operation and for a division of a non-zero number by zero.  A Python    *)
(* int 0 that meets a numpy operand is converted by numpy, so the same     *)
(* rules hold when an aggregate was never added to.                        *)
(***************************************************************************)
NaN == [k |-> "nan"]

Inf == [k |-> "inf"]

Num(n, r, e) == [k |-> "num", n |-> n, r |-> r, e |-> e]

UnitSurd == Surd(RInt(1), 0, RZero)

Zero == Num(RZero, UnitSurd, 1)

IsZero(v) == v.k = "num" /\ v.n = RZero

IsFinite(v) == v.k = "num"

\* np.sqrt(r): nan for r < 0, 0 for r = 0
NpSqrt(r) ==
    IF SignOf(r) < 0 THEN NaN
    ELSE IF SignOf(r) = 0 THEN Zero
    ELSE Num(RInt(1), r, -1)

NpSqrtWarn(r) == IF SignOf(r) < 0 THEN {"invalid"} ELSE {}

\* x / d for a rational x >= 0 and d = np.sqrt(...)
NpDivide(x, d) ==
    IF d.k = "nan" THEN NaN
    ELSE IF IsZero(d) THEN (IF x = RZero THEN NaN ELSE Inf)
    ELSE IF x = RZero THEN Zero
    ELSE Num(x, d.r, 1)

NpDivideWarn(x, d) ==
    IF d.k = "nan" THEN {}
    ELSE IF IsZero(d) THEN (IF x = RZero THEN {"invalid"} ELSE {"divide"})
    ELSE {}

\* 1 / v
NpRecip(v) ==
    IF v.k = "nan" THEN NaN
    ELSE IF v.k = "inf" THEN Zero
    ELSE IF IsZero(v) THEN Inf
    ELSE Num(v.n, v.r, -v.e)

NpRecipWarn(v) == IF v.k = "num" /\ IsZero(v) THEN {"divide"} ELSE {}

\* n1/sqrt(r1) <= n2/sqrt(r2), for numbers with e = 1
LeqPlain(x, y) ==
    LET n1 == RSq(x.n)
        n2 == RSq(y.n)
        P == RSub(RMul(n2, x.r.a), RMul(n1, y.r.a))
        Q == RSub(RMul(n2, RInt(x.r.s)), RMul(n1, RInt(y.r.s)))
        V == IF x.r.s # 0 THEN x.r.V ELSE y.r.V
    IN  CASE x.r.s = 0 \/ y.r.s = 0 \/ x.r.V = y.r.V -> SurdSign(P, Q, V) >= 0

\* x <= y as numpy compares floats: FALSE when either is nan
VLeq(x, y) ==
    CASE x.k = "nan" \/ y.k = "nan" -> FALSE
      [] y.k = "inf" -> TRUE
      [] x.k = "inf" -> FALSE
      [] IsZero(x) -> TRUE
      [] IsZero(y) -> FALSE
      [] x.e = 1 /\ y.e = 1 -> LeqPlain(x, y)
      [] x.e = -1 /\ y.e = -1 -> LeqPlain(y, x)

VEq(x, y) == VLeq(x, y) /\ VLeq(y, x)

(***************************************************************************)
(* config: which samples play which role, their normalisation, and the     *)
(* working point wp1.  Dictionaries are iterated in insertion order.       *)
(***************************************************************************)
Allocations == <<"signal", "background">>

sample_allocations == [signal |-> <<"Bs2NuNu">>, background |-> <<"bb", "cc">>]

Range(f) == {f[i] : i \in DOMAIN f}

Samples == UNION {Range(sample_allocations[a]) : a \in Range(Allocations)}

\* expected number of produced events of a sample, per unit of efficiency
\* (and, for the signal, per unit of branching fraction)
Weight == [Bs2NuNu |-> 100, bb |-> 400, cc |-> 100]

\* the cut "(var > thr)"
Greater(var, thr) == [var |-> var, op |-> ">", thr |-> thr]

wp1_cuts == <<Greater("EVT_MVA1", 1), Greater("EVT_MVA2", 0)>>

BDTcuts == "EVT_MVA1"

(***************************************************************************)
(* The summary table: the processed events, in a fixed order (the order    *)
(* plays no part).  An event belongs to a sample and either failed the     *)
(* preselection or was selected with a value of each discriminant.         *)
(***************************************************************************)
Scores == 0..MaxScore

Scores2 == 0..1

SampleList == sample_allocations["signal"] \o sample_allocations["background"]

Events ==
    {[sample |-> s, sel |-> FALSE, EVT_MVA1 |-> 0, EVT_MVA2 |-> 0] : s \in Samples} \cup
    {[sample |-> s, sel |-> TRUE, EVT_MVA1 |-> a, EVT_MVA2 |-> b] :
        s \in Samples, a \in Scores, b \in Scores2}

\* position of an event in the fixed order
Id(ev) ==
    LET si == CHOOSE i \in DOMAIN SampleList : SampleList[i] = ev.sample
    IN  (si * 2 + (IF ev.sel THEN 1 ELSE 0)) * (MaxScore + 1) * 2
            + ev.EVT_MVA1 * 2 + ev.EVT_MVA2

Tables ==
    {q \in UNION {[1..n -> Events] : n \in 0..MaxEvents} :
        /\ \A i \in DOMAIN q : i > 1 => Id(q[i - 1]) <= Id(q[i])
        /\ \A i \in DOMAIN q : Cardinality({j \in DOMAIN q : q[j] = q[i]}) <= MaxPerBin}

eventsProcessed(t, s) == Cardinality({i \in DOMAIN t : t[i].sample = s})

eventsSelected(t, s) == Cardinality({i \in DOMAIN t : t[i].sample = s /\ t[i].sel})

\* a cut expression is a conjunction of comparisons of a variable with a number
Holds(ev, atom) ==
    IF atom.op = ">" THEN ev[atom.var] > atom.thr ELSE ev[atom.var] < atom.thr

Passes(ev, expr) == ev.sel /\ \A i \in DOMAIN expr : Holds(ev, expr[i])

eventsPassing(t, s, expr) ==
    Cardinality({i \in DOMAIN t : t[i].sample = s /\ Passes(t[i], expr)})

(***************************************************************************)
(* efficiency_finder.get_efficiencies: for a sample and a cut expression,  *)
(* passing / eventsProcessed (raw) or passing / eventsSelected, with its   *)
(* counting error.  An error is kept as its square: [sq |-> q] is sqrt(q). *)
(* A zero denominator gives efficiency 0 with error 0.                     *)
(***************************************************************************)
ErrModels == {"binomial", "poisson"}

Efficiency(t, s, expr, raw) ==
    LET den == IF raw THEN eventsProcessed(t, s) ELSE eventsSelected(t, s)
    IN  IF den = 0 THEN RZero ELSE Rat(eventsPassing(t, s, expr), den)

EfficiencyErr(t, m, s, expr, raw) ==
    LET den == IF raw THEN eventsProcessed(t, s) ELSE eventsSelected(t, s)
        e == Efficiency(t, s, expr, raw)
    IN  IF den = 0 THEN [sq |-> RZero]
        ELSE IF m = "binomial"
             THEN [sq |-> RMul(RMul(e, RSub(RInt(1), e)), Rat(1, den))]
             ELSE [sq |-> Rat(eventsPassing(t, s, expr), den * den)]

\* cut given as a list of expressions: one array per sample
get_efficiencies(t, m, raw, cuts) ==
    [s \in Samples |->
        [eff |-> [i \in DOMAIN cuts |-> Efficiency(t, s, cuts[i], raw)],
         err |-> [i \in DOMAIN cuts |-> EfficiencyErr(t, m, s, cuts[i], raw)]]]

\* cut given as one expression: one value per sample
get_efficiency(t, m, raw, expr) ==
    [s \in Samples |->
        [eff |-> Efficiency(t, s, expr, raw),
         err |-> EfficiencyErr(t, m, s, expr, raw)]]

(***************************************************************************)
(* efficiency_finder.get_sample_expectations: efficiency times the         *)
(* sample's normalisation, times the branching fraction for the signal     *)
(* samples only; the error is scaled by the same factor.                   *)
(***************************************************************************)
IsSignal(s) == s \in Range(sample_allocations["signal"])

Factor(s, bf) == IF IsSignal(s) THEN Weight[s] * bf ELSE Weight[s]

Scale(e, f) == RMul(e, RInt(f))

ScaleErr(e, f) == [sq |-> RMul(e.sq, RInt(f * f))]

get_sample_expectations(ef, bf) ==
    [s \in Samples |->
        [num |-> [i \in DOMAIN ef[s].eff |-> Scale(ef[s].eff[i], Factor(s, bf))],
         err |-> [i \in DOMAIN ef[s].err |-> ScaleErr(ef[s].err[i], Factor(s, bf))]]]

get_sample_expectation(ef, bf) ==
    [s \in Samples |->
        [num |-> Scale(ef[s].eff, Factor(s, bf)),
         err |-> ScaleErr(ef[s].err, Factor(s, bf))]]

\* err ** 2
Square(e) == e.sq

(***************************************************************************)
(* State: which plot function runs, its arguments, and its locals.         *)
(***************************************************************************)
VARIABLES prog, args, pc, eff_cut, summary, eff, n_expect,
          S, B, S_var, B_var, significance, optimum,
          sig_arr, sig_l_arr, sig_u_arr, uncertainty_arr, unc_l_arr, unc_u_arr,
          printed, warnings, plotted

vars == <<prog, args, pc, eff_cut, summary, eff, n_expect,
          S, B, S_var, B_var, significance, optimum,
          sig_arr, sig_l_arr, sig_u_arr, uncertainty_arr, unc_l_arr, unc_u_arr,
          printed, warnings, plotted>>

SeqsUpTo(D, n) == UNION {[1..k -> D] : k \in 1..n}

None == [none |-> TRUE, expr |-> <<>>]

OtherCuts == {None, [none |-> FALSE, expr |-> <<Greater("EVT_MVA2", 0)>>]}

Cuts == {[name |-> "wp1", expr |-> <<>>],
         [name |-> "custom", expr |-> <<Greater("EVT_MVA1", 0)>>]}

Components == SUBSET Range(Allocations)

EffArgs ==
    {[cutvalues |-> c, othercut |-> o, raw |-> r, components |-> k] :
        c \in SeqsUpTo(Scores, MaxLen), o \in OtherCuts, r \in BOOLEAN, k \in Components}

SigArgs ==
    {[cutvalues |-> c, othercut |-> o, signal_bf |-> n, components |-> k] :
        c \in SeqsUpTo(Scores, MaxLen), o \in OtherCuts, n \in 0..MaxBF, k \in Components}

BfArgs ==
    {[signal_bf |-> n, cut |-> c, components |-> k] :
        n \in SeqsUpTo(0..MaxBF, MaxLen), c \in Cuts, k \in Components}

ArgsOf(p) ==
    CASE p = "efficiency_plotter" -> EffArgs
      [] p = "significance_plotter" -> SigArgs
      [] p = "significance_bf_plotter" -> BfArgs

Programs == {"efficiency_plotter", "significance_plotter", "significance_bf_plotter"}

Called(P) ==
    /\ prog \in P
    /\ args \in ArgsOf(prog)
    /\ pc = "cuts"
    /\ eff_cut = <<>>
    /\ summary = <<>>
    /\ eff = <<>>
    /\ n_expect = <<>>
    /\ S = RZero
    /\ B = RZero
    /\ S_var = RZero
    /\ B_var = RZero
    /\ significance = <<>>
    /\ optimum = -1
    /\ sig_arr = <<>>
    /\ sig_l_arr = <<>>
    /\ sig_u_arr = <<>>
    /\ uncertainty_arr = <<>>
    /\ unc_l_arr = <<>>
    /\ unc_u_arr = <<>>
    /\ printed = <<>>
    /\ warnings = {}
    /\ plotted = <<>>

(***************************************************************************)
(* efficiency_plotter.plot 88-91 and significance_plotter.plot 89-92:      *)
(* one cut expression per entry of cutvalues.                              *)
(***************************************************************************)
\* the thresholds deduplicated before the expressions are built
RECURSIVE Dedup(_)
Dedup(q) ==
    IF q = <<>> THEN <<>>
    ELSE LET rest == Dedup(SubSeq(q, 1, Len(q) - 1))
         IN  IF q[Len(q)] \in Range(rest) THEN rest ELSE Append(rest, q[Len(q)])

CutList_Dedup(cutvalues, othercut) ==
    IF othercut.none
    THEN [i \in DOMAIN Dedup(cutvalues) |-> <<Greater(BDTcuts, Dedup(cutvalues)[i])>>]
    ELSE [i \in DOMAIN Dedup(cutvalues) |->
            <<Greater(BDTcuts, Dedup(cutvalues)[i])>> \o othercut.expr]

\* the comparison turned round: "(BDTcuts < t)"
CutList_Less(cutvalues, othercut) ==
    IF othercut.none
    THEN [i \in DOMAIN cutvalues |-> <<[Greater(BDTcuts, cutvalues[i]) EXCEPT !.op = "<"]>>]
    ELSE [i \in DOMAIN cutvalues |->
            <<[Greater(BDTcuts, cutvalues[i]) EXCEPT !.op = "<"]>> \o othercut.expr]

CutList(cutvalues, othercut) ==
    IF othercut.none
    THEN [i \in DOMAIN cutvalues |-> <<Greater(BDTcuts, cutvalues[i])>>]
    ELSE [i \in DOMAIN cutvalues |-> <<Greater(BDTcuts, cutvalues[i])>> \o othercut.expr]

\* efficiency_plotter.plot 88-91
EffBuildCuts ==
    /\ prog = "efficiency_plotter"
    /\ pc = "cuts"
    /\ eff_cut' = CutList(args.cutvalues, args.othercut)
    /\ pc' = "efficiencies"
    /\ UNCHANGED <<prog, args, summary, eff, n_expect, S, B, S_var, B_var,
                   significance, optimum, sig_arr, sig_l_arr, sig_u_arr,
                   uncertainty_arr, unc_l_arr, unc_u_arr, printed, warnings, plotted>>

\* significance_plotter.plot 89-92
SigBuildCuts ==
    /\ prog = "significance_plotter"
    /\ pc = "cuts"
    /\ eff_cut' = CutList(args.cutvalues, args.othercut)
    /\ pc' = "efficiencies"
    /\ UNCHANGED <<prog, args, summary, eff, n_expect, S, B, S_var, B_var,
                   significance, optimum, sig_arr, sig_l_arr, sig_u_arr,
                   uncertainty_arr, unc_l_arr, unc_u_arr, printed, warnings, plotted>>

(***************************************************************************)
(* significance_bf_plotter.plot 86-95: the working point's cuts joined by  *)
(* " & ", or the cut given.                                                *)
(***************************************************************************)
RECURSIVE JoinFrom(_, _, _)
JoinFrom(acc, cutforms, i) ==
    IF i > Len(cutforms) THEN acc
    ELSE JoinFrom(Append(acc, cutforms[i]), cutforms, i + 1)

WorkingPointCut(cut) ==
    IF cut.name = "wp1"
    THEN JoinFrom(<<wp1_cuts[1]>>, wp1_cuts, 2)
    ELSE cut.expr

BfBuildCut ==
    /\ prog = "significance_bf_plotter"
    /\ pc = "cuts"
    /\ eff_cut' = WorkingPointCut(args.cut)
    /\ pc' = "efficiencies"
    /\ UNCHANGED <<prog, args, summary, eff, n_expect, S, B, S_var, B_var,
                   significance, optimum, sig_arr, sig_l_arr, sig_u_arr,
                   uncertainty_arr, unc_l_arr, unc_u_arr, printed, warnings, plotted>>

(***************************************************************************)
(* The calls of get_efficiencies, which reads the summary table.  The      *)
(* table is no variable of the plot functions; summary records the one     *)
(* that efficiency_plotter's call read, to compare the curves with it.     *)
(***************************************************************************)
\* efficiency_plotter.plot 93
EffGetEfficiencies ==
    /\ prog = "efficiency_plotter"
    /\ pc = "efficiencies"
    /\ \E t \in Tables, m \in ErrModels :
        /\ summary' = t
        /\ eff' = get_efficiencies(t, m, args.raw, eff_cut)
    /\ pc' = "plot"
    /\ UNCHANGED <<prog, args, eff_cut, n_expect, S, B, S_var, B_var,
                   significance, optimum, sig_arr, sig_l_arr, sig_u_arr,
                   uncertainty_arr, unc_l_arr, unc_u_arr, printed, warnings, plotted>>

\* significance_plotter.plot 94
SigGetEfficiencies ==
    /\ prog = "significance_plotter"
    /\ pc = "efficiencies"
    /\ \E t \in Tables, m \in ErrModels : eff' = get_efficiencies(t, m, TRUE, eff_cut)
    /\ pc' = "expectations"
    /\ UNCHANGED <<prog, args, eff_cut, summary, n_expect, S, B, S_var, B_var,
                   significance, optimum, sig_arr, sig_l_arr, sig_u_arr,
                   uncertainty_arr, unc_l_arr, unc_u_arr, printed, warnings, plotted>>

\* significance_bf_plotter.plot 98
BfGetEfficiencies ==
    /\ prog = "significance_bf_plotter"
    /\ pc = "efficiencies"
    /\ \E t \in Tables, m \in ErrModels : eff' = get_efficiency(t, m, TRUE, eff_cut)
    /\ pc' = "loop"
    /\ UNCHANGED <<prog, args, eff_cut, summary, n_expect, S, B, S_var, B_var,
                   significance, optimum, sig_arr, sig_l_arr, sig_u_arr,
                   uncertainty_arr, unc_l_arr, unc_u_arr, printed, warnings, plotted>>

(***************************************************************************)
(* efficiency_plotter.plot 104-126: one curve per sample of the roles in   *)
(* components.                                                             *)
(***************************************************************************)
RECURSIVE Drawn(_, _)
Drawn(components, i) ==
    IF i > Len(Allocations) THEN <<>>
    ELSE IF Allocations[i] \notin components THEN Drawn(components, i + 1)
    ELSE sample_allocations[Allocations[i]] \o Drawn(components, i + 1)

EffPlot ==
    /\ prog = "efficiency_plotter"
    /\ pc = "plot"
    /\ plotted' = Drawn(args.components, 1)
    /\ pc' = "done"
    /\ UNCHANGED <<prog, args, eff_cut, summary, eff, n_expect, S, B, S_var, B_var,
                   significance, optimum, sig_arr, sig_l_arr, sig_u_arr,
                   uncertainty_arr, unc_l_arr, unc_u_arr, printed, warnings>>

(***************************************************************************)
(* significance_plotter.plot 95: the expectations of every sample at every *)
(* cut, for the one branching fraction given.                              *)
(***************************************************************************)
SigGetExpectations ==
    /\ prog = "significance_plotter"
    /\ pc = "expectations"
    /\ n_expect' = get_sample_expectations(eff, args.signal_bf)
    /\ pc' = "aggregate"
    /\ UNCHANGED <<prog, args, eff_cut, summary, eff, S, B, S_var, B_var,
                   significance, optimum, sig_arr, sig_l_arr, sig_u_arr,
                   uncertainty_arr, unc_l_arr, unc_u_arr, printed, warnings, plotted>>

(***************************************************************************)
(* significance_plotter.plot 105-134: S and B are arrays over the cuts,    *)
(* filled by adding the arrays of the samples of each role in components.  *)
(***************************************************************************)
Zeros(n) == [i \in 1..n |-> RZero]

ArrayAdd(x, y) == [i \in DOMAIN x |-> RAdd(x[i], y[i])]

\* for i in np.arange(len(samples)): acc += arr[i]
RECURSIVE AddArrays(_, _, _)
AddArrays(acc, arr, i) ==
    IF i > Len(arr) THEN acc
    ELSE AddArrays(ArrayAdd(acc, arr[i]), arr, i + 1)

NumArrays(ne, samples) == [j \in DOMAIN samples |-> ne[samples[j]].num]

SumArrays(ne, components, allocation, n) ==
    IF allocation \in components
    THEN AddArrays(Zeros(n), NumArrays(ne, sample_allocations[allocation]), 1)
    ELSE Zeros(n)

SigAggregate ==
    /\ prog = "significance_plotter"
    /\ pc = "aggregate"
    /\ S' = SumArrays(n_expect, args.components, "signal", Len(args.cutvalues))
    /\ B' = SumArrays(n_expect, args.components, "background", Len(args.cutvalues))
    /\ pc' = "significance"
    /\ UNCHANGED <<prog, args, eff_cut, summary, eff, n_expect, S_var, B_var,
                   significance, optimum, sig_arr, sig_l_arr, sig_u_arr,
                   uncertainty_arr, unc_l_arr, unc_u_arr, printed, warnings, plotted>>

(***************************************************************************)
(* S / np.sqrt(S + B), the radicand being any surd (142, and 146-152 of    *)
(* significance_bf_plotter).                                               *)
(***************************************************************************)
Plain(x) == Surd(x, 0, RZero)

\* the square root forgotten: S / (S + B)
Signif_NoRoot(s, radicand) == NpDivide(s, NpSqrt(Plain(RSq(radicand.a))))

Signif(s, radicand) == NpDivide(s, NpSqrt(radicand))

SignifWarn(s, radicand) == NpSqrtWarn(radicand) \cup NpDivideWarn(s, NpSqrt(radicand))

At(line, kinds) == {<<line, k>> : k \in kinds}

SigSignificance ==
    /\ prog = "significance_plotter"
    /\ pc = "significance"
    /\ significance' = [i \in DOMAIN S |-> Signif(S[i], Plain(RAdd(S[i], B[i])))]
    /\ warnings' = warnings \cup
            UNION {At(142, SignifWarn(S[i], Plain(RAdd(S[i], B[i])))) : i \in DOMAIN S}
    /\ pc' = "optimum"
    /\ UNCHANGED <<prog, args, eff_cut, summary, eff, n_expect, S, B, S_var, B_var,
                   optimum, sig_arr, sig_l_arr, sig_u_arr,
                   uncertainty_arr, unc_l_arr, unc_u_arr, printed, plotted>>

(***************************************************************************)
(* significance_plotter.plot 153: cutvalues[np.argmax(significance)].      *)
(* np.argmax returns the first nan if there is one, else the first         *)
(* maximum (positions from 1 here).                                        *)
(***************************************************************************)
Min(D) == CHOOSE x \in D : \A y \in D : x <= y

argmax(a) ==
    LET nans == {i \in DOMAIN a : a[i].k = "nan"}
        tops == {i \in DOMAIN a : \A j \in DOMAIN a : VLeq(a[j], a[i])}
    IN  IF nans # {} THEN Min(nans) ELSE Min(tops)

SigOptimum ==
    /\ prog = "significance_plotter"
    /\ pc = "optimum"
    /\ optimum' = args.cutvalues[argmax(significance)]
    /\ pc' = "done"
    /\ UNCHANGED <<prog, args, eff_cut, summary, eff, n_expect, S, B, S_var, B_var,
                   significance, sig_arr, sig_l_arr, sig_u_arr,
                   uncertainty_arr, unc_l_arr, unc_u_arr, printed, warnings, plotted>>

(***************************************************************************)
(* significance_bf_plotter.plot 115-157: one pass of the loop over         *)
(* signal_bf.  The position is the number of values appended so far.       *)
(***************************************************************************)
\* for i in np.arange(len(samples)): acc += arr[i]
\* the loop started at the second sample
RECURSIVE AddValues_SkipFirst(_, _, _)
AddValues_SkipFirst(acc, arr, i) ==
    IF i > Len(arr) THEN acc
    ELSE IF i = 1 THEN AddValues_SkipFirst(acc, arr, 2)
    ELSE AddValues_SkipFirst(RAdd(acc, arr[i]), arr, i + 1)

RECURSIVE AddValues(_, _, _)
AddValues(acc, arr, i) ==
    IF i > Len(arr) THEN acc
    ELSE AddValues(RAdd(acc, arr[i]), arr, i + 1)

Nums(ne, samples) == [j \in DOMAIN samples |-> ne[samples[j]].num]

SquaredErrs(ne, samples) == [j \in DOMAIN samples |-> Square(ne[samples[j]].err)]

SumNum(ne, components, allocation) ==
    IF allocation \in components
    THEN AddValues(RZero, Nums(ne, sample_allocations[allocation]), 1)
    ELSE RZero

\* the squared errors of every sample added, whatever its role
SumVar_AllSamples(ne, components, allocation) ==
    IF allocation \in components
    THEN AddValues(RZero, SquaredErrs(ne, SampleList), 1)
    ELSE RZero

SumVar(ne, components, allocation) ==
    IF allocation \in components
    THEN AddValues(RZero, SquaredErrs(ne, sample_allocations[allocation]), 1)
    ELSE RZero

\* S / np.sqrt(S + (B + np.sqrt(B_var)))
LowerBand(s, b, bvar) == Signif(s, Surd(RAdd(s, b), 1, bvar))

LowerBandWarn(s, b, bvar) == SignifWarn(s, Surd(RAdd(s, b), 1, bvar))

\* S / np.sqrt(S + (B - np.sqrt(B_var)))
UpperBand(s, b, bvar) == Signif(s, Surd(RAdd(s, b), -1, bvar))

UpperBandWarn(s, b, bvar) == SignifWarn(s, Surd(RAdd(s, b), -1, bvar))

\* np.sqrt(B_var) / B
RelativeError(bvar, b) ==
    IF b = RZero THEN (IF bvar = RZero THEN NaN ELSE Inf)
    ELSE IF bvar = RZero THEN Zero
    ELSE Num(b, Surd(RZero, 1, bvar), -1)

RelativeErrorWarn(bvar, b) ==
    IF b = RZero THEN (IF bvar = RZero THEN {"invalid"} ELSE {"divide"}) ELSE {}

\* the loop variable stuck at the first entry
LoopValue_First(signal_bf, passes) == signal_bf[1]

\* for n in signal_bf: the value after `passes` passes
LoopValue(signal_bf, passes) == signal_bf[passes + 1]

BfLoopBody ==
    /\ prog = "significance_bf_plotter"
    /\ pc = "loop"
    /\ Len(sig_arr) < Len(args.signal_bf)
    /\ LET n == LoopValue(args.signal_bf, Len(sig_arr))
           ne == get_sample_expectation(eff, n)
           s == SumNum(ne, args.components, "signal")
           b == SumNum(ne, args.components, "background")
           bvar == SumVar(ne, args.components, "background")
           sig == Signif(s, Plain(RAdd(s, b)))
           sig_l == LowerBand(s, b, bvar)
           sig_u == UpperBand(s, b, bvar)
       IN  /\ n_expect' = ne
           /\ S' = s
           /\ B' = b
           /\ S_var' = SumVar(ne, args.components, "signal")
           /\ B_var' = bvar
           /\ sig_arr' = Append(sig_arr, sig)
           /\ uncertainty_arr' = Append(uncertainty_arr, NpRecip(sig))
           /\ sig_l_arr' = Append(sig_l_arr, sig_l)
           /\ sig_u_arr' = Append(sig_u_arr, sig_u)
           /\ unc_l_arr' = Append(unc_l_arr, NpRecip(sig_u))
           /\ unc_u_arr' = Append(unc_u_arr, NpRecip(sig_l))
           /\ printed' = Append(printed, RelativeError(bvar, b))
           /\ warnings' = warnings
                  \cup At(146, SignifWarn(s, Plain(RAdd(s, b))))
                  \cup At(148, NpRecipWarn(sig))
                  \cup At(150, LowerBandWarn(s, b, bvar))
                  \cup At(152, UpperBandWarn(s, b, bvar))
                  \cup At(154, NpRecipWarn(sig_u))
                  \cup At(155, NpRecipWarn(sig_l))
                  \cup At(157, RelativeErrorWarn(bvar, b))
    /\ pc' = "loop"
    /\ UNCHANGED <<prog, args, eff_cut, summary, eff, significance, optimum, plotted>>

\* 159 on: the sweep is over and the curves are drawn
BfDraw ==
    /\ prog = "significance_bf_plotter"
    /\ pc = "loop"
    /\ Len(sig_arr) = Len(args.signal_bf)
    /\ pc' = "done"
    /\ UNCHANGED <<prog, args, eff_cut, summary, eff, n_expect, S, B, S_var, B_var,
                   significance, optimum, sig_arr, sig_l_arr, sig_u_arr,
                   uncertainty_arr, unc_l_arr, unc_u_arr, printed, warnings, plotted>>

Init == Called(Programs)

NextEff == EffBuildCuts \/ EffGetEfficiencies \/ EffPlot

NextSig ==
    \/ SigBuildCuts
    \/ SigGetEfficiencies
    \/ SigGetExpectations
    \/ SigAggregate
    \/ SigSignificance
    \/ SigOptimum

NextBf == BfBuildCut \/ BfGetEfficiencies \/ BfLoopBody \/ BfDraw

Next == NextEff \/ NextSig \/ NextBf

\* any of the three plot functions is called
Spec == Init /\ [][Next]_vars

\* efficiency_plotter.plot is called
SpecEff == Called({"efficiency_plotter"}) /\ [][NextEff]_vars

\* significance_plotter.plot is called
SpecSig == Called({"significance_plotter"}) /\ [][NextSig]_vars

\* significance_bf_plotter.plot is called
SpecBf == Called({"significance_bf_plotter"}) /\ [][NextBf]_vars

(***************************************************************************)
(* Reference quantities for the properties below.                          *)
(***************************************************************************)
RECURSIVE RSum(_, _)
RSum(f, D) ==
    IF D = {} THEN RZero
    ELSE LET x == CHOOSE x \in D : TRUE IN RAdd(f[x], RSum(f, D \ {x}))

\* the samples of a role, none when the role is not in components
RoleSamples(allocation) ==
    IF allocation \in args.components THEN Range(sample_allocations[allocation]) ELSE {}

SigPlotterAggregated == prog = "significance_plotter" /\ pc \in {"significance", "optimum", "done"}

SigPlotterComputed == prog = "significance_plotter" /\ pc \in {"optimum", "done"}

\* the loop of significance_bf_plotter has completed a pass; its locals are that pass's
BfPointComputed == prog = "significance_bf_plotter" /\ Len(sig_arr) >= 1

\* expectations summed over the samples of a role, at cut i (significance_plotter)
ExpectedAt(allocation, i) ==
    RSum([s \in Samples |-> n_expect[s].num[i]], RoleSamples(allocation))

\* expectations and squared errors summed over the samples of a role
\* (significance_bf_plotter, the pass just completed)
Expected(allocation) == RSum([s \in Samples |-> n_expect[s].num], RoleSamples(allocation))

Variance(allocation) ==
    RSum([s \in Samples |-> n_expect[s].err.sq], RoleSamples(allocation))

\* v is the number s / sqrt(s + b), for s + b > 0
IsSOverRoot(v, s, b) ==
    IF s = RZero THEN IsZero(v)
    ELSE VEq(v, Num(s, Plain(RAdd(s, b)), 1))

Examples(v, s, b) ==
    /\ (s = RInt(100) /\ b = RInt(400)) => VEq(v, Num(RInt(100), Plain(RInt(500)), 1))
    /\ (s = RZero /\ b = RInt(100)) => IsZero(v)
    /\ (s = RInt(100) /\ b = RZero) => VEq(v, Num(RInt(10), UnitSurd, 1))

(***************************************************************************)
(* C1: at every point of a sweep with S + B > 0 the significance is        *)
(* exactly S / sqrt(S + B), S and B being the summed expectations of the   *)
(* signal and of the background samples at that point; S=100, B=400 gives  *)
(* 100/sqrt(500), S=0, B=100 gives 0 and S=100, B=0 gives 10.              *)
(***************************************************************************)
C1_Significance ==
    /\ SigPlotterComputed =>
        \A i \in DOMAIN args.cutvalues :
            LET s == ExpectedAt("signal", i)
                b == ExpectedAt("background", i)
            IN  RSign(RAdd(s, b)) > 0 =>
                    IsSOverRoot(significance[i], s, b) /\ Examples(significance[i], s, b)
    /\ BfPointComputed =>
        LET s == Expected("signal")
            b == Expected("background")
            v == sig_arr[Len(sig_arr)]
        IN  RSign(RAdd(s, b)) > 0 => IsSOverRoot(v, s, b) /\ Examples(v, s, b)

C1_Witness ==
    /\ BfPointComputed
    /\ S = RInt(100)
    /\ B = RInt(400)

(***************************************************************************)
(* C5: at every sweep point S is the sum of the expectations of exactly    *)
(* the samples of the signal role and B of exactly those of the background *)
(* role, a role outside components giving 0 and no sample being in two     *)
(* roles; the variance of each aggregate is the sum of the squares of its  *)
(* samples' errors.                                                        *)
(***************************************************************************)
C5_Aggregates ==
    /\ Range(sample_allocations["signal"]) \cap Range(sample_allocations["background"]) = {}
    /\ SigPlotterAggregated =>
        \A i \in DOMAIN args.cutvalues :
            /\ S[i] = ExpectedAt("signal", i)
            /\ B[i] = ExpectedAt("background", i)
    /\ BfPointComputed =>
        /\ S = Expected("signal")
        /\ B = Expected("background")
        /\ S_var = Variance("signal")
        /\ B_var = Variance("background")

C5_Witness ==
    /\ BfPointComputed
    /\ \A s \in Range(sample_allocations["background"]) : RSign(n_expect[s].num) > 0
    /\ RSign(B_var) > 0
    /\ B = RInt(500)

(***************************************************************************)
(* C3: one cut expression per entry of cutvalues, in input order, nothing  *)
(* reordered or dropped: eff_cut[i] is "(BDTcuts > cutvalues[i])",         *)
(* followed by " & othercut" iff othercut is given; and the six result     *)
(* sequences of the branching-fraction sweep hold one value per entry of   *)
(* signal_bf, the i-th being the value for signal_bf[i].                   *)
(***************************************************************************)
\* the six values of the sweep point at branching fraction n
PointAt(n) ==
    LET ne == get_sample_expectation(eff, n)
        s == RSum([x \in Samples |-> ne[x].num], RoleSamples("signal"))
        b == RSum([x \in Samples |-> ne[x].num], RoleSamples("background"))
        bvar == RSum([x \in Samples |-> ne[x].err.sq], RoleSamples("background"))
        sig == NpDivide(s, NpSqrt(Plain(RAdd(s, b))))
        lo == NpDivide(s, NpSqrt(Surd(RAdd(s, b), 1, bvar)))
        up == NpDivide(s, NpSqrt(Surd(RAdd(s, b), -1, bvar)))
    IN  [sig |-> sig, sig_l |-> lo, sig_u |-> up,
         unc |-> NpRecip(sig), unc_l |-> NpRecip(up), unc_u |-> NpRecip(lo)]

C3_OrderPreserved ==
    /\ (prog \in {"efficiency_plotter", "significance_plotter"} /\ pc # "cuts") =>
        /\ Len(eff_cut) = Len(args.cutvalues)
        /\ \A i \in DOMAIN eff_cut :
            /\ eff_cut[i][1] = [var |-> BDTcuts, op |-> ">", thr |-> args.cutvalues[i]]
            /\ args.othercut.none => Len(eff_cut[i]) = 1
            /\ ~args.othercut.none => eff_cut[i] = <<eff_cut[i][1]>> \o args.othercut.expr
    /\ (prog = "significance_bf_plotter" /\ pc \in {"loop", "done"}) =>
        /\ \A a \in {sig_l_arr, sig_u_arr, uncertainty_arr, unc_l_arr, unc_u_arr} :
                Len(a) = Len(sig_arr)
        /\ Len(sig_arr) <= Len(args.signal_bf)
        /\ pc = "done" => Len(sig_arr) = Len(args.signal_bf)
        /\ \A i \in DOMAIN sig_arr :
            LET p == PointAt(args.signal_bf[i])
            IN  /\ sig_arr[i] = p.sig
                /\ sig_l_arr[i] = p.sig_l
                /\ sig_u_arr[i] = p.sig_u
                /\ uncertainty_arr[i] = p.unc
                /\ unc_l_arr[i] = p.unc_l
                /\ unc_u_arr[i] = p.unc_u

C3_Witness ==
    /\ prog = "significance_plotter"
    /\ pc = "done"
    /\ Len(eff_cut) = 2
    /\ args.cutvalues[1] = args.cutvalues[2]
    /\ ~args.othercut.none

(***************************************************************************)
(* C4: the band is the significance formula at B + sqrt(var(B)) (lower     *)
(* curve) and B - sqrt(var(B)) (upper curve) with the same S, the          *)
(* uncertainty is 1/significance, and the signal variance enters none of   *)
(* the six sequences: a run that differs only in the signal samples'       *)
(* errors produces the same values.                                        *)
(***************************************************************************)
SignalErrs == {[sq |-> RZero], [sq |-> RInt(1)], [sq |-> Rat(1, 4)]}

\* eff with the error of every signal sample replaced by e
WithSignalErr(ef, e) ==
    [s \in Samples |-> IF IsSignal(s) THEN [ef[s] EXCEPT !.err = e] ELSE ef[s]]

\* the values one pass of the loop appends, from the efficiencies ef
Pass(ef, n) ==
    LET ne == get_sample_expectation(ef, n)
        s == SumNum(ne, args.components, "signal")
        b == SumNum(ne, args.components, "background")
        bvar == SumVar(ne, args.components, "background")
    IN  <<Signif(s, Plain(RAdd(s, b))), NpRecip(Signif(s, Plain(RAdd(s, b)))),
          LowerBand(s, b, bvar), UpperBand(s, b, bvar),
          NpRecip(UpperBand(s, b, bvar)), NpRecip(LowerBand(s, b, bvar))>>

LastPass ==
    LET k == Len(sig_arr)
    IN  <<sig_arr[k], uncertainty_arr[k], sig_l_arr[k], sig_u_arr[k], unc_l_arr[k], unc_u_arr[k]>>

C4_BackgroundOnlyBand ==
    BfPointComputed =>
        LET k == Len(sig_arr)
            s == Expected("signal")
            b == Expected("background")
            v == Variance("background")
        IN  /\ sig_l_arr[k] = NpDivide(s, NpSqrt(Surd(RAdd(s, b), 1, v)))
            /\ sig_u_arr[k] = NpDivide(s, NpSqrt(Surd(RAdd(s, b), -1, v)))
            /\ uncertainty_arr[k] = NpRecip(sig_arr[k])
            /\ \A e \in SignalErrs :
                Pass(WithSignalErr(eff, e), args.signal_bf[k]) = LastPass

C4_Witness ==
    /\ BfPointComputed
    /\ RSign(S) > 0
    /\ RSign(S_var) > 0
    /\ RSign(B_var) > 0
    /\ IsFinite(sig_u_arr[Len(sig_arr)])
    /\ sig_u_arr[Len(sig_arr)] # sig_l_arr[Len(sig_arr)]

(***************************************************************************)
(* C6: across the signal_bf sweep the efficiencies are computed once, the  *)
(* aggregated B and B_var are the same at every branching fraction, and    *)
(* the S at twice a branching fraction is twice the S at it.               *)
(***************************************************************************)
C6_LinearInBF ==
    [][(prog = "significance_bf_plotter" /\ Len(sig_arr) >= 1
            /\ Len(sig_arr') = Len(sig_arr) + 1) =>
        /\ eff' = eff
        /\ B' = B
        /\ B_var' = B_var
        /\ (args.signal_bf[Len(sig_arr')] = 2 * args.signal_bf[Len(sig_arr)] =>
                S' = RMul(RInt(2), S))]_vars

C6_Witness ==
    /\ prog = "significance_bf_plotter"
    /\ Len(sig_arr) = 2
    /\ args.signal_bf = <<1, 2>>
    /\ S = RInt(200)
    /\ RSign(B) > 0

(***************************************************************************)
(* C2: the degenerate case S + B = 0 is guarded in the significance        *)
(* computation: no division of zero by zero is evaluated there (numpy      *)
(* reports one as an "invalid value" RuntimeWarning of that line).         *)
(***************************************************************************)
C2_DegenerateGuarded ==
    /\ <<142, "invalid">> \notin warnings
    /\ <<146, "invalid">> \notin warnings

(***************************************************************************)
(* C8: at every branching fraction of the sweep the band brackets the      *)
(* central value, sig_l <= significance <= sig_u and                       *)
(* unc_l <= uncertainty <= unc_u, and sig_u and unc_l are finite numbers.  *)
(***************************************************************************)
C8_BandBrackets ==
    BfPointComputed =>
        LET k == Len(sig_arr)
        IN  /\ VLeq(sig_l_arr[k], sig_arr[k])
            /\ VLeq(sig_arr[k], sig_u_arr[k])
            /\ VLeq(unc_l_arr[k], uncertainty_arr[k])
            /\ VLeq(uncertainty_arr[k], unc_u_arr[k])
            /\ IsFinite(sig_u_arr[k])
            /\ IsFinite(unc_l_arr[k])

(***************************************************************************)
(* C9: the optimum cut reported is the earliest element of cutvalues whose *)
(* significance is at least the significance at every threshold of the     *)
(* sweep, thresholds with S + B = 0 (no significance) left aside.          *)
(***************************************************************************)
C9_OptimumIsMaximum ==
    (prog = "significance_plotter" /\ pc = "done") =>
        LET defined == {i \in DOMAIN significance : significance[i].k # "nan"}
            best == {i \in defined : \A j \in defined : VLeq(significance[j], significance[i])}
        IN  defined # {} => optimum = args.cutvalues[Min(best)]

(***************************************************************************)
(* C10: a sweep point with S = 0 and B > 0 gives significance 0 and a      *)
(* defined number for the uncertainty 1/significance and for the band      *)
(* reciprocals 1/sig_u and 1/sig_l.                                        *)
(***************************************************************************)
C10_ZeroSignalDefined ==
    (BfPointComputed /\ S = RZero /\ RSign(B) > 0) =>
        LET k == Len(sig_arr)
        IN  /\ IsZero(sig_arr[k])
            /\ IsFinite(uncertainty_arr[k])
            /\ IsFinite(unc_l_arr[k])
            /\ IsFinite(unc_u_arr[k])

(***************************************************************************)
(* C7, as claimed: for a sweep over a single discriminant the efficiency   *)
(* for the expression built at threshold 0 equals the no-cut efficiency of *)
(* the sample, the efficiency does not grow with the threshold, and every  *)
(* efficiency lies in [0, 1].                                              *)
(***************************************************************************)
EffPlotterComputed == prog = "efficiency_plotter" /\ pc \in {"plot", "done"}

\* what get_efficiencies gives for the sample with no cut at all
NoCutEfficiency(s) == Efficiency(summary, s, <<>>, args.raw)

Monotone(s) ==
    \A i, j \in DOMAIN args.cutvalues :
        args.cutvalues[i] <= args.cutvalues[j] => RLeq(eff[s].eff[j], eff[s].eff[i])

InUnitInterval(s) ==
    \A i \in DOMAIN args.cutvalues :
        RLeq(RZero, eff[s].eff[i]) /\ RLeq(eff[s].eff[i], RInt(1))

C7_ThresholdZeroIsNoCut ==
    EffPlotterComputed =>
        \A s \in Samples :
            /\ \A i \in DOMAIN args.cutvalues :
                (args.othercut.none /\ args.cutvalues[i] = 0) =>
                    eff[s].eff[i] = NoCutEfficiency(s)
            /\ Monotone(s)
            /\ InUnitInterval(s)

(***************************************************************************)
(* C7, amended: the same, the efficiency at threshold 0 being the no-cut   *)
(* efficiency when none of the sample's selected events has the value 0    *)
(* (or less) of the discriminant: the cut built is the strict              *)
(* "BDTcuts > 0".                                                          *)
(***************************************************************************)
NoneAtZero(s) ==
    \A k \in DOMAIN summary :
        (summary[k].sample = s /\ summary[k].sel) => summary[k][BDTcuts] > 0

C7_ThresholdZeroStrict ==
    EffPlotterComputed =>
        \A s \in Samples :
            /\ \A i \in DOMAIN args.cutvalues :
                (args.othercut.none /\ args.cutvalues[i] = 0 /\ NoneAtZero(s)) =>
                    eff[s].eff[i] = NoCutEfficiency(s)
            /\ Monotone(s)
            /\ InUnitInterval(s)

C7_Witness ==
    /\ EffPlotterComputed
    /\ args.othercut.none
    /\ args.raw
    /\ args.cutvalues = <<0, 1>>
    /\ \E s \in Samples :
        /\ NoneAtZero(s)
        /\ eff[s].eff[1] = Rat(1, 2)
        /\ NoCutEfficiency(s) = Rat(1, 2)
        /\ eff[s].eff[2] = RZero

=============================================================================
